---- MODULE Spec2Model ----
(***************************************************************************)
(* A model of SMU-Calendar (src/src/main.py): the per-year crawl loops of  *)
(* fetch_events, the crawler's fetch / validate / deserialize pipeline,    *)
(* the event model (hash, equality, ordering, to_ics) and main's           *)
(* sort / convert / write steps.                                           *)
(*                                                                         *)
(* Strings whose characters the program inspects (the date strings that    *)
(* datetime.strptime parses) are tuples of one-character strings.  JSON    *)
(* values are tagged records: [t |-> "true"], [t |-> "false"],             *)
(* [t |-> "num", n |-> ..], [t |-> "str", s |-> ..], [t |-> "obj"],        *)
(* [t |-> "list", items |-> <<...>>].  A JSON object with known keys (the  *)
(* response, a record of the list) is a TLA+ record whose DOMAIN is the    *)
(* set of keys present.  A raised exception is [raised |-> <name>].        *)
(***************************************************************************)
EXTENDS Integers, Sequences, FiniteSets, TLC

VARIABLES
    pc,         \* position of main: "primary", "additional", "convert", "write", "done", "crashed"
    idx,        \* 1-based index of the year the current loop is at
    stage,      \* position inside one loop iteration: "start", "posted", "received"
    raw_data,   \* what the latest _fetch returned (or raised); NoData while a request is
                \* in flight and once main has gone on to the conversion
    events,     \* the set `events` of fetch_events / main
    requests,   \* the POST requests issued so far, in order
    log,        \* the records handed to the logger, in order
    crawled,    \* history: article numbers listed by the responses of the years that succeeded
    added,      \* the ics events main added to icalendar.events, in order of addition
    written,    \* TRUE once the output document has been written
    crash,      \* "none", or the place an uncaught exception left main: "to_ics", "write"
    arg,        \* input of a single call (specifications SpecCrawler, SpecToIcs)
    ret         \* result of that call

vars == <<pc, idx, stage, raw_data, events, requests, log, crawled, added, written, crash, arg, ret>>

----------------------------------------------------------------------------
(* Bounds *)

MaxList == 2

----------------------------------------------------------------------------
(* Module constants of main.py *)

CURRENT_YEAR == 2024

TARGET_YEARS == <<CURRENT_YEAR - 1, CURRENT_YEAR, CURRENT_YEAR + 1>>

ADDITIONAL_TARGET_YEARS == <<CURRENT_YEAR - 3, CURRENT_YEAR - 2, CURRENT_YEAR + 2>>

----------------------------------------------------------------------------
(* Exceptions and markers *)

Raise(name) == [raised |-> name]

IsRaised(x) == DOMAIN x = {"raised"}

NoData == [none |-> TRUE]

----------------------------------------------------------------------------
(* str(int) for non-negative integers, as a tuple of digit characters *)

DigitChar == <<"0", "1", "2", "3", "4", "5", "6", "7", "8", "9">>

RECURSIVE Str(_)
Str(n) == IF n < 10 THEN <<DigitChar[n + 1]>>
          ELSE Append(Str(n \div 10), DigitChar[(n % 10) + 1])

----------------------------------------------------------------------------
(* datetime.strptime(s, "%Y-%m-%d") *)

DigitVal == ("0" :> 0) @@ ("1" :> 1) @@ ("2" :> 2) @@ ("3" :> 3) @@ ("4" :> 4) @@
            ("5" :> 5) @@ ("6" :> 6) @@ ("7" :> 7) @@ ("8" :> 8) @@ ("9" :> 9)

IsDigit(c) == c \in DOMAIN DigitVal

RECURSIVE ToInt(_)
ToInt(t) == IF Len(t) = 0 THEN 0
            ELSE 10 * ToInt(SubSeq(t, 1, Len(t) - 1)) + DigitVal[t[Len(t)]]

\* %Y is \d\d\d\d
MatchY(t) == Len(t) = 4 /\ \A i \in 1..4 : IsDigit(t[i])

\* %m is 1[0-2]|0[1-9]|[1-9]
MatchM(t) ==
    \/ Len(t) = 2 /\ t[1] = "1" /\ t[2] \in {"0", "1", "2"}
    \/ Len(t) = 2 /\ t[1] = "0" /\ IsDigit(t[2]) /\ t[2] # "0"
    \/ Len(t) = 1 /\ IsDigit(t[1]) /\ t[1] # "0"

\* %d is 3[01]|[12]\d|0[1-9]|[1-9]| [1-9]
MatchD(t) ==
    \/ Len(t) = 2 /\ t[1] = "3" /\ t[2] \in {"0", "1"}
    \/ Len(t) = 2 /\ t[1] \in {"1", "2"} /\ IsDigit(t[2])
    \/ Len(t) = 2 /\ t[1] \in {"0", " "} /\ IsDigit(t[2]) /\ t[2] # "0"
    \/ Len(t) = 1 /\ IsDigit(t[1]) /\ t[1] # "0"

IsLeap(y) == y % 4 = 0 /\ (y % 100 # 0 \/ y % 400 = 0)

DaysInMonth(y, m) ==
    IF m = 2 THEN (IF IsLeap(y) THEN 29 ELSE 28)
    ELSE IF m \in {4, 6, 9, 11} THEN 30 ELSE 31

\* the index of the first "-" after position 5, or 0
SecondDash(s) ==
    IF \E i \in 6..Len(s) : s[i] = "-"
    THEN CHOOSE i \in 6..Len(s) : s[i] = "-" /\ \A j \in 6..(i - 1) : s[j] # "-"
    ELSE 0

DayDigits(t) == IF t[1] = " " THEN SubSeq(t, 2, Len(t)) ELSE t

Strptime(s) ==
    IF Len(s) < 5 \/ SecondDash(s) = 0 THEN Raise("ValueError")
    ELSE LET d2 == SecondDash(s)
             ty == SubSeq(s, 1, 4)
             tm == SubSeq(s, 6, d2 - 1)
             td == SubSeq(s, d2 + 1, Len(s))
         IN  IF ~(MatchY(ty) /\ s[5] = "-" /\ MatchM(tm) /\ MatchD(td))
             THEN Raise("ValueError")
             ELSE LET y == ToInt(ty)
                      m == ToInt(tm)
                      d == ToInt(DayDigits(td))
                  IN  IF y < 1 \/ d > DaysInMonth(y, m)
                      THEN Raise("ValueError")
                      ELSE [year |-> y, month |-> m, day |-> d]

\* datetime.__gt__
DateGt(a, b) ==
    \/ a.year > b.year
    \/ a.year = b.year /\ a.month > b.month
    \/ a.year = b.year /\ a.month = b.month /\ a.day > b.day

\* the end date taken as given, without the max
DateMaxEndOnly(a, b) == b

\* the builtin max(a, b) on two datetimes
DateMax(a, b) == IF DateGt(b, a) THEN b ELSE a

----------------------------------------------------------------------------
(* SmuCalendarEvent *)

EventKeys == <<"boardNo", "articleNo", "articleTitle", "articleText", "createDt",
               "orderDt", "updateDt", "etcChar4", "etcChar5", "etcChar6",
               "etcChar7", "etcChar8", "etcChar9">>

\* SmuCalendarEvent.__hash__
EventHash(e) == e.articleNo

\* SmuCalendarEvent.__eq__ as @dataclasses.dataclass generates it (eq=True is
\* the default and the class defines no __eq__): the tuples of all the
\* fields are compared
EventEq(a, b) == \A i \in 1..Len(EventKeys) : a[EventKeys[i]] = b[EventKeys[i]]

\* SmuCalendarEvent.__lt__
EventLt(a, b) == a.articleNo < b.articleNo

\* set membership: same hash, then __eq__
SetContains(S, e) == \E x \in S : EventHash(x) = EventHash(e) /\ EventEq(x, e)

\* set.add
SetAdd(S, e) == IF SetContains(S, e) THEN S ELSE S \cup {e}

\* set(iterable)
RECURSIVE SetOf(_)
SetOf(seq) == IF Len(seq) = 0 THEN {}
              ELSE SetAdd(SetOf(SubSeq(seq, 1, Len(seq) - 1)), seq[Len(seq)])

\* an assignment where the update should be
SetUpdateAssign(S, T) == T

\* set.update(other)
SetUpdate(S, T) == S \cup {e \in T : ~SetContains(S, e)}

\* SmuCalendarEvent.to_ics; of the ics.Event the uid, the name, the dates and
\* the all-day flag are kept
ToIcs(e) ==
    LET b == Strptime(e.etcChar6)
        n == Strptime(e.etcChar7)
    IN  IF IsRaised(b) THEN b
        ELSE IF IsRaised(n) THEN n
        ELSE [uid     |-> Str(e.articleNo),
              name    |-> e.articleTitle,
              begin   |-> b,
              end     |-> DateMax(b, n),
              all_day |-> TRUE]

----------------------------------------------------------------------------
(* SmuCalendarCrawler *)

JTrue == [t |-> "true"]

JFalse == [t |-> "false"]

JList(items) == [t |-> "list", items |-> items]

\* the body of the POST request of _fetch
PostRequest(year) ==
    [sqlId   |-> "jw.Article.selectCalendarArticle",
     modelNm |-> "list",
     jsonStr |-> [year |-> Str(year), bachelorBoardNoList |-> <<"85">>]]

\* _validate testing the truth value of success instead of `is True`
ValidateTruthy(json) ==
    IF "success" \notin DOMAIN json THEN Raise("KeyError")
    ELSE IF json.success.t \notin {"true", "num", "str"} THEN Raise("AssertionError")
    ELSE IF "list" \notin DOMAIN json THEN Raise("KeyError")
    ELSE IF json.list.t # "list" THEN Raise("AssertionError")
    ELSE NoData

\* _validate: None, or the exception raised
Validate(json) ==
    IF "success" \notin DOMAIN json THEN Raise("KeyError")
    ELSE IF json.success # JTrue THEN Raise("AssertionError")
    ELSE IF "list" \notin DOMAIN json THEN Raise("KeyError")
    ELSE IF json.list.t # "list" THEN Raise("AssertionError")
    ELSE NoData

\* one step of the generator: the event built from an item, or KeyError
DeserializeItem(item) ==
    IF \E i \in 1..Len(EventKeys) : EventKeys[i] \notin DOMAIN item
    THEN Raise("KeyError")
    ELSE [k \in {EventKeys[i] : i \in 1..Len(EventKeys)} |-> item[k]]

\* _deserialize passing over the items that lack a key
RECURSIVE DeserializeSkipping(_)
DeserializeSkipping(items) ==
    IF Len(items) = 0 THEN [ok |-> <<>>]
    ELSE LET first == DeserializeItem(items[1])
             rest == DeserializeSkipping(Tail(items))
         IN  IF IsRaised(first) THEN rest ELSE [ok |-> <<first>> \o rest.ok]

\* _deserialize, run to exhaustion: [ok |-> the events yielded], or the
\* exception that ended the iteration
RECURSIVE Deserialize(_)
Deserialize(items) ==
    IF Len(items) = 0 THEN [ok |-> <<>>]
    ELSE LET first == DeserializeItem(items[1])
         IN  IF IsRaised(first) THEN first
             ELSE LET rest == Deserialize(Tail(items))
                  IN  IF IsRaised(rest) THEN rest ELSE [ok |-> <<first>> \o rest.ok]

\* get_events after _fetch has returned or raised: [ok |-> the set], or the
\* exception
GetEvents(raw) ==
    IF IsRaised(raw) THEN raw
    ELSE LET v == Validate(raw)
         IN  IF IsRaised(v) THEN v
             ELSE LET evts == Deserialize(raw.list.items)
                  IN  IF IsRaised(evts) THEN evts
                      ELSE [ok |-> SetOf(evts.ok)]

----------------------------------------------------------------------------
(* Inputs: what the endpoint may answer *)

ArticleNos == {42, 100}

D_0228 == <<"2", "0", "2", "4", "-", "0", "2", "-", "2", "8">>

D_0301 == <<"2", "0", "2", "4", "-", "0", "3", "-", "0", "1">>

D_Slash == <<"2", "0", "2", "4", "/", "0", "3", "/", "0", "1">>

\* (title, start, end): an ordinary range, an inverted range, an end that is no date
Ordinary == <<"A", D_0228, D_0301>>

Inverted == <<"B", D_0301, D_0228>>

NoDate == <<"C", D_0301, D_Slash>>

Item(no, v) ==
    [boardNo      |-> "85",
     articleNo    |-> no,
     articleTitle |-> v[1],
     articleText  |-> "<p>text</p>",
     createDt     |-> 86400000,
     orderDt      |-> 86400000,
     updateDt     |-> 172800000,
     etcChar4     |-> "2024",
     etcChar5     |-> "first_term",
     etcChar6     |-> v[2],
     etcChar7     |-> v[3],
     etcChar8     |-> "bachelor",
     etcChar9     |-> "seoul"]

Without(item, key) == [k \in DOMAIN item \ {key} |-> item[k]]

\* two records with the same article number and different fields, a record
\* with another article number, a record whose end is no date
GoodItems == {Item(42, Ordinary), Item(42, Inverted), Item(100, Ordinary), Item(100, NoDate)}

\* a record of the list that lacks one of the thirteen keys
BadItems == {Without(Item(42, Ordinary), "orderDt")}

Items == GoodItems \cup BadItems

RECURSIVE SeqsUpTo(_, _)
SeqsUpTo(S, n) ==
    IF n = 0 THEN {<<>>}
    ELSE LET shorter == SeqsUpTo(S, n - 1)
         IN  shorter \cup {Append(q, x) : q \in {r \in shorter : Len(r) = n - 1}, x \in S}

Lists == SeqsUpTo(Items, MaxList)

SomeList == <<Item(42, Ordinary)>>

Responses ==
    {[success |-> JTrue, list |-> JList(l)] : l \in Lists}
    \cup {[success |-> JFalse],
          [success |-> JFalse, list |-> JList(SomeList)],
          [success |-> [t |-> "num", n |-> 1], list |-> JList(SomeList)],
          [success |-> [t |-> "str", s |-> "true"], list |-> JList(SomeList)],
          [list |-> JList(SomeList)],
          [success |-> JTrue],
          [success |-> JTrue, list |-> [t |-> "obj"]],
          [success |-> JTrue, list |-> [t |-> "str", s |-> "[]"]]}

\* requests.post or response.json raising
FetchErrors == {Raise("RequestException")}

----------------------------------------------------------------------------
(* main and fetch_events *)

\* the second loop running over the first list again
YearsPrimaryOnly(loop) == TARGET_YEARS

Years(loop) == IF loop = "primary" THEN TARGET_YEARS ELSE ADDITIONAL_TARGET_YEARS

LogLine(level, msg, year, additional) ==
    [level |-> level, msg |-> msg, year |-> year, additional |-> additional]

\* one severity for both loops
FailLevelError(loop) == "ERROR"

FailLevel(loop) == IF loop = "primary" THEN "ERROR" ELSE "WARNING"

AfterLoop(loop) == IF loop = "primary" THEN "additional" ELSE "convert"

Init ==
    /\ pc = "primary"
    /\ idx = 1
    /\ stage = "start"
    /\ raw_data = NoData
    /\ events = {}
    /\ requests = <<>>
    /\ log = <<>>
    /\ crawled = {}
    /\ added = <<>>
    /\ written = FALSE
    /\ crash = "none"
    /\ arg = NoData
    /\ ret = NoData

\* logger.info('start crawling'), then _fetch posts the request
CrawlStart(loop) ==
    /\ pc = loop
    /\ stage = "start"
    /\ log' = Append(log, LogLine("INFO", "start", Years(loop)[idx], loop = "additional"))
    /\ requests' = Append(requests, PostRequest(Years(loop)[idx]))
    /\ stage' = "posted"
    /\ raw_data' = NoData
    /\ UNCHANGED <<pc, idx, events, crawled, added, written, crash, arg, ret>>

\* the blocking round trip ends: response.json() returns or the call raises
Receive ==
    /\ pc \in {"primary", "additional"}
    /\ stage = "posted"
    /\ \E r \in Responses \cup FetchErrors : raw_data' = r
    /\ stage' = "received"
    /\ UNCHANGED <<pc, idx, events, requests, log, crawled, added, written, crash, arg, ret>>

\* the rest of the try statement: _validate, _deserialize, set(), events.update,
\* the except or the else branch, and the loop's advance
CrawlFinish(loop) ==
    /\ pc = loop
    /\ stage = "received"
    /\ LET res == GetEvents(raw_data)
           year == Years(loop)[idx]
       IN  IF IsRaised(res)
           THEN /\ log' = Append(log, LogLine(FailLevel(loop), "failed", year, loop = "additional"))
                /\ UNCHANGED <<events, crawled>>
           ELSE /\ events' = SetUpdate(events, res.ok)
                /\ log' = Append(log, LogLine("INFO", "succeeded", year, loop = "additional"))
                /\ crawled' = crawled \cup
                       {raw_data.list.items[i].articleNo : i \in 1..Len(raw_data.list.items)}
    /\ stage' = "start"
    /\ IF idx < Len(Years(loop))
       THEN idx' = idx + 1 /\ pc' = pc
       ELSE idx' = 1 /\ pc' = AfterLoop(loop)
    /\ UNCHANGED <<raw_data, requests, added, written, crash, arg, ret>>

PrimaryStart == CrawlStart("primary")

PrimaryFinish == CrawlFinish("primary")

AdditionalStart == CrawlStart("additional")

AdditionalFinish == CrawlFinish("additional")

\* sorted(events): ascending by __lt__; elements neither of which is less
\* than the other keep the iteration order of the set, which is arbitrary
RECURSIVE SortedOrders(_)
SortedOrders(S) ==
    IF S = {} THEN {<<>>}
    ELSE LET least == {e \in S : \A x \in S : ~EventLt(x, e)}
         IN  UNION {{<<e>> \o rest : rest \in SortedOrders(S \ {e})} : e \in least}

\* the ics events of the longest prefix of `order` that converts
RECURSIVE Converted(_)
Converted(order) ==
    IF Len(order) = 0 THEN <<>>
    ELSE LET out == ToIcs(order[1])
         IN  IF IsRaised(out) THEN <<>> ELSE <<out>> \o Converted(Tail(order))

\* for evt in sorted(events): icalendar.events.add(evt.to_ics()), then the
\* 'writing events' log line; an exception of to_ics leaves main
AddEvents ==
    /\ pc = "convert"
    /\ \E order \in SortedOrders(events) :
         LET outs == Converted(order)
         IN  /\ added' = outs
             /\ IF Len(outs) = Len(order)
                THEN /\ pc' = "write"
                     /\ log' = Append(log, LogLine("INFO", "writing", 0, FALSE))
                     /\ crash' = crash
                ELSE /\ pc' = "crashed"
                     /\ crash' = "to_ics"
                     /\ log' = log
    /\ raw_data' = NoData
    /\ UNCHANGED <<idx, stage, events, requests, crawled, written, arg, ret>>

\* os.makedirs, open and writelines; an OSError leaves main
WriteDocument ==
    /\ pc = "write"
    /\ \E ok \in BOOLEAN :
         IF ok THEN pc' = "done" /\ written' = TRUE /\ crash' = crash
         ELSE pc' = "crashed" /\ written' = FALSE /\ crash' = "write"
    /\ UNCHANGED <<idx, stage, raw_data, events, requests, log, crawled, added, arg, ret>>

Next ==
    \/ PrimaryStart
    \/ PrimaryFinish
    \/ AdditionalStart
    \/ AdditionalFinish
    \/ Receive
    \/ AddEvents
    \/ WriteDocument

Spec == Init /\ [][Next]_vars

TypeOK ==
    /\ pc \in {"primary", "additional", "convert", "write", "done", "crashed"}
    /\ idx \in 1..3
    /\ stage \in {"start", "posted", "received"}
    /\ events \subseteq GoodItems
    /\ written \in BOOLEAN
    /\ crash \in {"none", "to_ics", "write"}

----------------------------------------------------------------------------
(* to_ics as a function of one event: the event is drawn from date strings  *)
(* of every kind, the call is made once                                     *)

D_0229 == <<"2", "0", "2", "4", "-", "0", "2", "-", "2", "9">>

D_1231 == <<"2", "0", "2", "4", "-", "1", "2", "-", "3", "1">>

D_2025 == <<"2", "0", "2", "5", "-", "0", "1", "-", "0", "1">>

D_NoLeap == <<"2", "0", "2", "3", "-", "0", "2", "-", "2", "9">>

D_Month13 == <<"2", "0", "2", "4", "-", "1", "3", "-", "0", "1">>

D_Short == <<"2", "0", "2", "4", "-", "3", "-", "1">>

D_TwoDigitYear == <<"2", "4", "-", "0", "3", "-", "0", "1">>

D_Empty == <<>>

\* what each string denotes: ymd is the date written as the number yyyymmdd,
\* or 0 when the string is not a date in the form YYYY-MM-DD
DateTable ==
    {[s |-> D_0228, ymd |-> 20240228],
     [s |-> D_0229, ymd |-> 20240229],
     [s |-> D_0301, ymd |-> 20240301],
     [s |-> D_1231, ymd |-> 20241231],
     [s |-> D_2025, ymd |-> 20250101],
     [s |-> D_Slash, ymd |-> 0],
     [s |-> D_NoLeap, ymd |-> 0],
     [s |-> D_Month13, ymd |-> 0],
     [s |-> D_Short, ymd |-> 0],
     [s |-> D_TwoDigitYear, ymd |-> 0],
     [s |-> D_Empty, ymd |-> 0]}

InitToIcs ==
    /\ pc = "call"
    /\ idx = 1
    /\ stage = "start"
    /\ raw_data = NoData
    /\ events = {}
    /\ requests = <<>>
    /\ log = <<>>
    /\ crawled = {}
    /\ added = <<>>
    /\ written = FALSE
    /\ crash = "none"
    /\ \E no \in ArticleNos, b \in DateTable, n \in DateTable :
         arg = DeserializeItem(Item(no, <<"A", b.s, n.s>>))
    /\ ret = NoData

CallToIcs ==
    /\ pc = "call"
    /\ ret = NoData
    /\ ret' = ToIcs(arg)
    /\ UNCHANGED <<pc, idx, stage, raw_data, events, requests, log, crawled, added,
                   written, crash, arg>>

NextToIcs == CallToIcs

SpecToIcs == InitToIcs /\ [][NextToIcs]_vars

----------------------------------------------------------------------------
(* Vocabulary of the properties *)

Last(q) == q[Len(q)]

InFetch == pc \in {"primary", "additional"}

\* the six target years in the order of the two loops
AllYears == TARGET_YEARS \o ADDITIONAL_TARGET_YEARS

\* the years as the request payload must spell them
AllYearStrs ==
    <<<<"2", "0", "2", "3">>, <<"2", "0", "2", "4">>, <<"2", "0", "2", "5">>,
      <<"2", "0", "2", "1">>, <<"2", "0", "2", "2">>, <<"2", "0", "2", "6">>>>

OutcomeLines == {i \in 1..Len(log) : log[i].msg \in {"succeeded", "failed"}}

FailedLines == {i \in 1..Len(log) : log[i].msg = "failed"}

SucceededLines == {i \in 1..Len(log) : log[i].msg = "succeeded"}

\* a year's try statement has just run to its end on the response raw_data
YearJustFinished == stage = "start" /\ raw_data # NoData

\* the step that runs a year's try statement to its end
FinishStep == stage = "received" /\ stage' = "start"

HasKey(r, k) == k \in DOMAIN r

SuccessIsTrue(r) == HasKey(r, "success") /\ r.success.t = "true"

ListIsSequence(r) == HasKey(r, "list") /\ r.list.t = "list"

Complete(item) == \A i \in 1..Len(EventKeys) : HasKey(item, EventKeys[i])

HasIncompleteItem(r) ==
    ListIsSequence(r) /\ \E i \in 1..Len(r.list.items) : ~Complete(r.list.items[i])

\* a response on which get_events returns
Answered(r) == SuccessIsTrue(r) /\ ListIsSequence(r) /\ ~HasIncompleteItem(r)

ArticleNosOf(S) == {e.articleNo : e \in S}

Ymd(d) == d.year * 10000 + d.month * 100 + d.day

----------------------------------------------------------------------------
(* C1: after fetch_events the aggregate holds at most one event per article *)
(* number: two events of the set with the same articleNo are one event.     *)
C1_OneEventPerArticle ==
    ~InFetch => \A a \in events, b \in events : a.articleNo = b.articleNo => a = b

(* C2: whatever years fail, all six years are attempted, fetch_events       *)
(* returns and main reaches the writing of the document; when all six years *)
(* fail the document is written with zero events.                           *)
C2_RunReachesWrite ==
    /\ ~InFetch => Len(requests) = 6 /\ Cardinality(OutcomeLines) = 6
    /\ pc = "crashed" => crash = "write"
    /\ (pc = "done" /\ Cardinality(FailedLines) = 6) => written /\ added = <<>>

(* C3: no error caused by a year's data escalates: the only exception that  *)
(* ends the run is one raised while the output document is written.         *)
C3_OnlyWriteErrorsEscape ==
    crash \in {"none", "write"}

(* C4: each event main adds to the document has an article number strictly  *)
(* greater than that of the event added before it.                          *)
C4_StrictlyAscending ==
    \A i \in 1..(Len(added) - 1) : ToInt(added[i].uid) < ToInt(added[i + 1].uid)

(* C5: for an event whose start and end strings are dates in the form       *)
(* YYYY-MM-DD, to_ics returns an event that begins on the start date and    *)
(* ends on the later of the start and the end date, so end >= begin.        *)
C5_EndIsLaterDate ==
    ret # NoData =>
        \A b \in DateTable, n \in DateTable :
            (b.s = arg.etcChar6 /\ n.s = arg.etcChar7 /\ b.ymd # 0 /\ n.ymd # 0) =>
                /\ ~IsRaised(ret)
                /\ Ymd(ret.begin) = b.ymd
                /\ Ymd(ret.end) = (IF n.ymd > b.ymd THEN n.ymd ELSE b.ymd)
                /\ Ymd(ret.end) >= Ymd(ret.begin)

\* the record of the example: start 2024-03-01, end 2024-02-28, becomes a
\* single-day event on 2024-03-01
C5_Witness ==
    /\ ret # NoData
    /\ arg.etcChar6 = D_0301
    /\ arg.etcChar7 = D_0228
    /\ ~IsRaised(ret)
    /\ Ymd(ret.begin) = 20240301
    /\ ret.end = ret.begin

(* C6: get_events raises, adding no event, unless the response has success  *)
(* equal to true and a list that is a sequence; with success true and an    *)
(* empty list it returns the empty set without error.                       *)
C6_ValidateGuards ==
    [][FinishStep =>
          /\ ~(SuccessIsTrue(raw_data) /\ ListIsSequence(raw_data)) =>
                 Last(log').msg = "failed" /\ events' = events
          /\ (SuccessIsTrue(raw_data) /\ ListIsSequence(raw_data)
                 /\ Len(raw_data.list.items) = 0) =>
                 Last(log').msg = "succeeded" /\ events' = events]_vars

\* a year answered {"success": false} while events of an earlier year are held
C6_Witness ==
    /\ YearJustFinished
    /\ raw_data = [success |-> JFalse]
    /\ Last(log).msg = "failed"
    /\ events # {}

(* C7: when an element of a year's list lacks one of the thirteen keys, the *)
(* year fails and the aggregate is exactly what it was before the attempt.  *)
C7_AllOrNothing ==
    [][(FinishStep /\ HasIncompleteItem(raw_data)) =>
          Last(log').msg = "failed" /\ events' = events]_vars

\* success true, a complete record followed by an incomplete one; the year
\* failed and the events of an earlier year are still held
C7_Witness ==
    /\ YearJustFinished
    /\ SuccessIsTrue(raw_data)
    /\ ListIsSequence(raw_data)
    /\ Len(raw_data.list.items) = 2
    /\ Complete(raw_data.list.items[1])
    /\ ~Complete(raw_data.list.items[2])
    /\ raw_data.list.items[1] \notin events
    /\ events # {}
    /\ Last(log).msg = "failed"

(* C8: the article numbers of the aggregate are exactly those listed by the *)
(* responses of the years whose get_events call succeeded.                  *)
C8_ExactlyTheFetched ==
    stage = "start" => ArticleNosOf(events) = crawled

\* article 42 is listed by a failed year's response only, article 100 by a
\* year that succeeded
C8_Witness ==
    /\ YearJustFinished
    /\ raw_data = [success |-> JFalse, list |-> JList(SomeList)]
    /\ Last(log).msg = "failed"
    /\ SucceededLines # {}
    /\ ArticleNosOf(events) = {100}

(* C9: one request per target year in the order primary then additional,    *)
(* no retry, and a request is issued only when every earlier year's attempt *)
(* has finished.                                                            *)
C9_OneRequestPerYear ==
    /\ Len(requests) <= 6
    /\ \A k \in 1..Len(requests) : requests[k].jsonStr.year = AllYearStrs[k]
    /\ Cardinality(OutcomeLines) = Len(requests) - (IF stage = "start" THEN 0 ELSE 1)
    /\ pc = "additional" => Len(requests) >= 3
    /\ ~InFetch => Len(requests) = 6

C9_Witness ==
    /\ pc = "convert"
    /\ Len(requests) = 6
    /\ FailedLines # {}
    /\ SucceededLines # {}

(* C10: each year's 'start' line is followed, before the next 'start' line, *)
(* by exactly one outcome line for that year: 'succeeded' at INFO exactly   *)
(* when get_events returned, else 'failed' at ERROR for a primary year and  *)
(* at WARNING for an additional year.                                       *)
C10_LogLines ==
    /\ \A k \in 1..6 :
          /\ 2 * k - 1 <= Len(log) =>
                log[2 * k - 1] = LogLine("INFO", "start", AllYears[k], k > 3)
          /\ 2 * k <= Len(log) =>
                \/ log[2 * k] = LogLine("INFO", "succeeded", AllYears[k], k > 3)
                \/ log[2 * k] = LogLine(IF k > 3 THEN "WARNING" ELSE "ERROR",
                                        "failed", AllYears[k], k > 3)
    /\ InFetch => Len(log) = Len(requests) + Cardinality(OutcomeLines)
    /\ YearJustFinished => (Last(log).msg = "succeeded" <=> Answered(raw_data))

C10_Witness ==
    /\ pc = "convert"
    /\ \E i \in FailedLines : log[i].level = "ERROR"
    /\ \E i \in FailedLines : log[i].level = "WARNING"
    /\ SucceededLines # {}

====
